---- MODULE Spec2Model ----
(***************************************************************************)
(* Model of pb_setup.py: the PocketBaseSetup class (version catalog,       *)
(* artifact locator, cache store, acquisition pipeline, unpacker) and the  *)
(* main() entry point that drives run_setup.                               *)
(*                                                                         *)
(* Python strings that the code inspects character by character (version   *)
(* identifiers) are sequences of one-character strings; None is the        *)
(* one-element sequence <<"None">>, which is no Python string.             *)
(***************************************************************************)
EXTENDS Integers, Sequences, FiniteSets, TLC

VARIABLES
    pc,             \* position of the process in main / run_setup / the method called
    args,           \* the arguments given to main() or to the constructor
    project_dir,    \* self.project_dir
    pb_version,     \* self.pb_version
    pb_port,        \* self.pb_port
    port_from_args, \* hasattr(self, '_port_from_args')
    os_type,        \* self.os_type
    arch,           \* self.arch
    port_input,     \* local port_input of select_port
    attempt,        \* loop variable of get_pocketbase_versions
    requests,       \* number of urlopen calls issued by get_pocketbase_versions
    sleeps,         \* number of time.sleep(1) calls made by get_pocketbase_versions
    releases,       \* local releases of get_pocketbase_versions (last parsed body)
    versions,       \* value returned by get_pocketbase_versions
    default_used,   \* the "Utilisation de versions par défaut" branch was taken
    cache,          \* files under ~/.pb_cache: filename -> content
    url,            \* local url of download_pocketbase
    filename,       \* local filename of download_pocketbase
    zip_path,       \* local zip_path of download_pocketbase
    xfers,          \* urlretrieve calls made by the current download_pocketbase call
    dl_result,      \* value returned by download_pocketbase
    pb_mode,        \* permission bits of project_dir/pocketbase, NoFile if absent
    history,        \* one record per finished download_pocketbase call
    written,        \* scaffold steps of run_setup that have completed
    config,         \* what create_config_file wrote to pb_config.json
    err,            \* the last exception raised
    exit_status     \* exit status of the process, NotExited while it runs

vars == <<pc, args, project_dir, pb_version, pb_port, port_from_args, os_type,
          arch, port_input, attempt, requests, sleeps, releases, versions,
          default_used, cache, url, filename, zip_path, xfers, dl_result,
          pb_mode, history, written, config, err, exit_status>>

(***************************************************************************)
(* Bounds of the exploration.                                              *)
(***************************************************************************)
MaxLen == 3         \* longest generated version override, in characters
MaxReleases == 17   \* longest generated release listing
MaxCalls == 3       \* download_pocketbase calls made on one object

(***************************************************************************)
(* Program constants.                                                      *)
(***************************************************************************)
max_retries == 3
MaxVersions == 15
DefaultPort == 8090
MinPort == 1024
MaxPort == 65535
ExecMode == 493     \* 0o755

None == <<"None">>
NoneList == <<None>>
NoFile == -1
NoConfig == [port |-> 0, version |-> None]
NotExited == -1

(***************************************************************************)
(* Python string operations on character sequences.                        *)
(***************************************************************************)
DigitChars == {"0", "1", "2", "3", "4", "5", "6", "7", "8", "9"}

\* bool(s) for an optional string
Truthy(s) == s # None /\ s # <<>>

\* s.startswith(c)
StartsWith(s, c) == Len(s) >= 1 /\ s[1] = c

\* s[1:]
DropFirst(s) == SubSeq(s, 2, Len(s))

\* s.replace(c, '')
RemoveChar(s, c) ==
    LET keep(x) == x # c IN SelectSeq(s, keep)

\* a digit test that the empty string passes
IsDigitOrEmpty(s) == \A i \in 1..Len(s) : s[i] \in DigitChars

\* s.isdigit(): non-empty and every character a digit
IsDigit(s) == Len(s) > 0 /\ \A i \in 1..Len(s) : s[i] \in DigitChars

\* s.lstrip(c): every leading c is removed
RECURSIVE LStrip(_, _)
LStrip(s, c) ==
    IF s # <<>> /\ Head(s) = c THEN LStrip(Tail(s), c) ELSE s

\* the Python string as one TLA+ string
RECURSIVE Str(_)
Str(s) == IF s = <<>> THEN "" ELSE Head(s) \o Str(Tail(s))

\* the acceptance test of select_version for a supplied version
ValidOverride(v) ==
    StartsWith(v, "v") /\ IsDigit(RemoveChar(DropFirst(v), "."))

(***************************************************************************)
(* Version Catalog: data and pure parts of get_pocketbase_versions.        *)
(***************************************************************************)
V0303 == <<"v", "0", ".", "3", "0", ".", "3">>
V0302 == <<"v", "0", ".", "3", "0", ".", "2">>
V0301 == <<"v", "0", ".", "3", "0", ".", "1">>
V0300 == <<"v", "0", ".", "3", "0", ".", "0">>
V0293 == <<"v", "0", ".", "2", "9", ".", "3">>
V0292 == <<"v", "0", ".", "2", "9", ".", "2">>
V0291 == <<"v", "0", ".", "2", "9", ".", "1">>
V0290 == <<"v", "0", ".", "2", "9", ".", "0">>
V0280 == <<"v", "0", ".", "2", "8", ".", "0">>

\* the hardcoded list returned when the listing cannot be obtained
DefaultVersions ==
    <<V0303, V0302, V0301, V0300, V0293, V0292, V0291, V0290, V0280>>

Latest == <<"l", "a", "t", "e", "s", "t">>

\* [r['tag_name'] for r in releases if not r['prerelease']]
RECURSIVE StableTags(_)
StableTags(rs) ==
    IF rs = <<>> THEN <<>>
    ELSE IF Head(rs).prerelease THEN StableTags(Tail(rs))
         ELSE <<Head(rs).tag_name>> \o StableTags(Tail(rs))

\* a slice that keeps one entry too many
TakeOneMore(xs, n) == SubSeq(xs, 1, IF Len(xs) < n + 1 THEN Len(xs) ELSE n + 1)

\* xs[:n]
Take(xs, n) == SubSeq(xs, 1, IF Len(xs) < n THEN Len(xs) ELSE n)

\* a test that never lets the last failure be raised
ShouldRetryAlways(a) == a < max_retries

\* the test that decides between the backoff and the final raise
ShouldRetry(a) == a < max_retries - 1

\* the test of select_version turned around
NoVersionsInverted(vs) == ~(vs = NoneList \/ vs = <<>>)

\* "not versions" in select_version
NoVersions(vs) == vs = NoneList \/ vs = <<>>

(***************************************************************************)
(* Platform Identifier and Artifact Locator: get_pocketbase_download_url.  *)
(***************************************************************************)
\* a lookup without the default: every string is passed through
OsNameNoDefault(o) == o

\* os_map.get(self.os_type, 'linux')
OsName(o) == IF o \in {"linux", "darwin", "windows"} THEN o ELSE "linux"

\* arch_map.get(self.arch, 'amd64')
ArchName(a) ==
    IF a \in {"x86_64", "amd64"} THEN "amd64"
    ELSE IF a = "arm64" THEN "arm64"
    ELSE "amd64"

\* self.pb_version.lstrip('v')
VersionNum(v) == LStrip(v, "v")

Filename(v, o, a) ==
    "pocketbase_" \o Str(VersionNum(v)) \o "_" \o OsName(o) \o "_"
        \o ArchName(a) \o ".zip"

BaseUrl == "https://github.com/pocketbase/pocketbase/releases/download/"

\* a URL whose path segment is the stripped version
UrlOfNumber(v, o, a) == BaseUrl \o Str(VersionNum(v)) \o "/" \o Filename(v, o, a)

Url(v, o, a) == BaseUrl \o Str(v) \o "/" \o Filename(v, o, a)

\* the test that decides whether the extracted binary is made executable
IsPosix(o) == o \in {"linux", "darwin"}

(***************************************************************************)
(* Cache Store: ~/.pb_cache as a function from filenames to contents.      *)
(***************************************************************************)
\* a lookup that never finds the file
CacheHitNever(c, f) == FALSE

\* a lookup that takes a truncated file for a miss
CacheHitWhole(c, f) == f \in DOMAIN c /\ c[f] # "partial"

\* cached_zip.exists()
CacheHit(c, f) == f \in DOMAIN c

\* the file f is (re)written with content x
Store(c, f, x) == [g \in DOMAIN c \cup {f} |-> IF g = f THEN x ELSE c[g]]

(***************************************************************************)
(* Inputs: command lines, typed answers, hosts, directories.               *)
(***************************************************************************)
NoArgs == [project_dir |-> "None", version |-> None, has_port |-> FALSE,
           port |-> 0, help |-> FALSE]

\* kinds of path a user can name: absent and creatable, existing and empty,
\* existing with files in it, absent and impossible to create
DirKinds == {"new", "empty", "nonempty", "denied"}

PortValues == {80, 3000, 8090, 65536}

ArgVersions == {None, V0303, Latest}

\* the arguments of one invocation; help exists on the command line only
ArgSets(cli) ==
    { a \in [project_dir : DirKinds \cup {"None"}, version : ArgVersions,
             has_port : BOOLEAN, port : PortValues \cup {0}, help : BOOLEAN] :
        /\ (a.has_port <=> a.port # 0)
        /\ (cli \/ ~a.help) }

\* (platform.system().lower(), platform.machine()) of the hosts explored
Hosts == { <<"linux", "x86_64">>, <<"darwin", "arm64">>, <<"windows", "AMD64">>,
           <<"freebsd", "amd64">> }

\* what a line typed at the port prompt can be
PortAnswers ==
    { [kind |-> "empty", val |-> 0], [kind |-> "word", val |-> 0] } \cup
    { [kind |-> "int", val |-> n] : n \in PortValues }

\* permission bits a freshly extracted file gets (0o644, 0o600: 0o666 less the umask)
NewModes == {420, 384}

\* permission bits a pocketbase file already in the directory can have
OldModes == {420, 493}

InRange(p) == MinPort <= p /\ p <= MaxPort

\* caches a run can start from: empty, or one artifact of an earlier run
EmptyCache == [f \in {} |-> "partial"]

InitCaches ==
    { EmptyCache } \cup
    { [f \in {Filename(V0303, "linux", "x86_64")} |-> c] : c \in {"partial", "zip_pb"} }

(***************************************************************************)
(* The state after the interpreter has started and before main() or the    *)
(* constructor has run: nothing of the object exists yet.                  *)
(***************************************************************************)
Blank ==
    /\ project_dir = "None"
    /\ pb_version = None
    /\ pb_port = DefaultPort
    /\ port_from_args = FALSE
    /\ os_type = "None"
    /\ arch = "None"
    /\ port_input = [kind |-> "none", val |-> 0]
    /\ attempt = 0
    /\ requests = 0
    /\ sleeps = 0
    /\ releases = <<>>
    /\ versions = NoneList
    /\ default_used = FALSE
    /\ url = "None"
    /\ filename = "None"
    /\ zip_path = "None"
    /\ xfers = 0
    /\ dl_result = "None"
    /\ pb_mode = NoFile
    /\ history = <<>>
    /\ written = <<>>
    /\ config = NoConfig
    /\ err = "None"
    /\ exit_status = NotExited

Init ==
    /\ Blank
    /\ \E cli \in BOOLEAN :
        /\ pc = IF cli THEN "main" ELSE "init"
        /\ args \in ArgSets(cli)
    /\ cache \in InitCaches

\* sys.exit(n), or the end of main(), or an uncaught exception
Exit(n) == pc' = "exit" /\ exit_status' = n

\* __init__: the fields of the new object
Construct(a, h) ==
    /\ project_dir' = a.project_dir
    /\ pb_version' = a.version
    /\ pb_port' = IF a.has_port THEN a.port ELSE DefaultPort
    /\ os_type' = h[1]
    /\ arch' = h[2]

\* main(): parse, validate the port, construct, mark the port, run_setup
Main ==
    /\ pc = "main"
    /\ args' = NoArgs
    /\ IF args.help
       THEN /\ Exit(0)
            /\ UNCHANGED <<project_dir, pb_version, pb_port, os_type, arch,
                           port_from_args>>
       ELSE IF args.has_port /\ ~InRange(args.port)
       THEN /\ Exit(1)
            /\ UNCHANGED <<project_dir, pb_version, pb_port, os_type, arch,
                           port_from_args>>
       ELSE /\ \E h \in Hosts : Construct(args, h)
            /\ port_from_args' = args.has_port
            /\ pc' = "select_project_dir"
            /\ UNCHANGED exit_status
    /\ UNCHANGED <<port_input, attempt, requests, sleeps, releases, versions,
                   default_used, cache, url, filename, zip_path, xfers,
                   dl_result, pb_mode, history, written, config, err>>

\* PocketBaseSetup(project_dir, pb_version, pb_port).run_setup() by a caller
\* other than main()
New ==
    /\ pc = "init"
    /\ args' = NoArgs
    /\ \E h \in Hosts : Construct(args, h)
    /\ pc' = "select_project_dir"
    /\ UNCHANGED <<port_from_args, exit_status, port_input, attempt, requests,
                   sleeps, releases, versions, default_used, cache, url,
                   filename, zip_path, xfers, dl_result, pb_mode, history,
                   written, config, err>>

\* what the pocketbase file of a directory of kind d can be when it is chosen
ModesIn(d) == IF d = "nonempty" THEN OldModes \cup {NoFile} ELSE {NoFile}

\* select_project_dir, up to the first prompt
SelectProjectDir ==
    /\ pc = "select_project_dir"
    /\ IF project_dir # "None"
       THEN IF project_dir = "denied"
            THEN /\ err' = "OSError_mkdir"
                 /\ Exit(1)
                 /\ UNCHANGED pb_mode
            ELSE /\ pb_mode' \in ModesIn(project_dir)
                 /\ pc' = "select_port"
                 /\ UNCHANGED <<err, exit_status>>
       ELSE /\ pc' = "spd_prompt"
            /\ UNCHANGED <<err, exit_status, pb_mode>>
    /\ UNCHANGED <<args, project_dir, pb_version, pb_port, port_from_args,
                   os_type, arch, port_input, attempt, requests, sleeps,
                   releases, versions, default_used, cache, url, filename,
                   zip_path, xfers, dl_result, history, written, config>>

\* one round of the while True loop of select_project_dir
SelectProjectDirPrompt ==
    /\ pc = "spd_prompt"
    /\ \E d \in DirKinds, confirm \in BOOLEAN :
        /\ project_dir' = d
        /\ IF d = "denied"
           THEN /\ err' = "OSError_mkdir"
                /\ UNCHANGED <<pc, pb_mode>>
           ELSE IF d = "nonempty" /\ ~confirm
           THEN UNCHANGED <<pc, pb_mode, err>>
           ELSE /\ pb_mode' \in ModesIn(d)
                /\ pc' = "select_port"
                /\ UNCHANGED err
    /\ UNCHANGED <<args, pb_version, pb_port, port_from_args, os_type, arch,
                   port_input, attempt, requests, sleeps, releases, versions,
                   default_used, cache, url, filename, zip_path, xfers,
                   dl_result, history, written, config, exit_status>>

\* select_port
SelectPort ==
    /\ pc = "select_port"
    /\ IF pb_port # DefaultPort \/ port_from_args
       THEN /\ pb_port' = IF InRange(pb_port) THEN pb_port ELSE DefaultPort
            /\ UNCHANGED port_input
       ELSE \E a \in PortAnswers :
            /\ port_input' = a
            /\ pb_port' = IF a.kind = "int" /\ InRange(a.val) THEN a.val ELSE pb_port
    /\ pc' = "select_version"
    /\ UNCHANGED <<args, project_dir, pb_version, port_from_args, os_type,
                   arch, attempt, requests, sleeps, releases, versions,
                   default_used, cache, url, filename, zip_path, xfers,
                   dl_result, pb_mode, history, written, config, err,
                   exit_status>>

(***************************************************************************)
(* select_version and get_pocketbase_versions.                             *)
(***************************************************************************)
\* failures of one listing request: URLError or timeout, HTTPError (non-2xx),
\* an empty body, a body that is not the expected JSON
NetErrors == {"URLError", "HTTPError", "empty_body", "bad_json"}

\* what one listing request can bring back
Responses(Errors, Listings) ==
    { [ok |-> FALSE, err |-> e, body |-> <<>>] : e \in Errors } \cup
    { [ok |-> TRUE, err |-> "None", body |-> b] : b \in Listings }

\* select_version, up to the call of get_pocketbase_versions
SelectVersion ==
    /\ pc = "select_version"
    /\ IF Truthy(pb_version) /\ ValidOverride(pb_version)
       THEN pc' = "dl_entry"
       ELSE pc' = "gv_attempt"
    /\ UNCHANGED <<args, project_dir, pb_version, pb_port, port_from_args,
                   os_type, arch, port_input, attempt, requests, sleeps,
                   releases, versions, default_used, cache, url, filename,
                   zip_path, xfers, dl_result, pb_mode, history, written,
                   config, err, exit_status>>

\* one round of the retry loop of get_pocketbase_versions: the request and
\* what follows it up to the return, the fallback or the backoff
GvAttempt(Rs) ==
    /\ pc = "gv_attempt"
    /\ attempt < max_retries
    /\ requests' = requests + 1
    /\ \E r \in Rs :
        LET stable == StableTags(r.body)
            failed == ~r.ok \/ stable = <<>>
        IN  /\ releases' = IF r.ok THEN r.body ELSE releases
            /\ err' = IF ~r.ok THEN r.err
                      ELSE IF stable = <<>> THEN "no_version" ELSE err
            /\ IF ~failed
               THEN /\ versions' = Take(stable, MaxVersions)
                    /\ pc' = "gv_return"
                    /\ UNCHANGED default_used
               ELSE IF ShouldRetry(attempt)
               THEN /\ pc' = "gv_sleep"
                    /\ UNCHANGED <<versions, default_used>>
               ELSE /\ versions' = DefaultVersions
                    /\ default_used' = TRUE
                    /\ pc' = "gv_return"
    /\ UNCHANGED <<args, project_dir, pb_version, pb_port, port_from_args,
                   os_type, arch, port_input, attempt, sleeps, cache, url,
                   filename, zip_path, xfers, dl_result, pb_mode, history,
                   written, config, exit_status>>

\* time.sleep(1) and the next round of the loop; a loop that runs out of
\* rounds ends the function without a return statement
GvBackoff ==
    /\ pc = "gv_sleep"
    /\ sleeps' = sleeps + 1
    /\ attempt' = attempt + 1
    /\ IF attempt + 1 < max_retries
       THEN /\ pc' = "gv_attempt"
            /\ UNCHANGED versions
       ELSE /\ pc' = "gv_return"
            /\ versions' = NoneList
    /\ UNCHANGED <<args, project_dir, pb_version, pb_port, port_from_args,
                   os_type, arch, port_input, requests, releases,
                   default_used, cache, url, filename, zip_path, xfers,
                   dl_result, pb_mode, history, written, config, err,
                   exit_status>>

\* select_version after get_pocketbase_versions has returned
SelectVersionList ==
    /\ pc = "gv_return"
    /\ IF NoVersions(versions)
       THEN /\ pb_version' = Latest
            /\ pc' = "dl_entry"
       ELSE /\ pc' = "sv_prompt"
            /\ UNCHANGED pb_version
    /\ UNCHANGED <<args, project_dir, pb_port, port_from_args, os_type, arch,
                   port_input, attempt, requests, sleeps, releases, versions,
                   default_used, cache, url, filename, zip_path, xfers,
                   dl_result, pb_mode, history, written, config, err,
                   exit_status>>

\* one round of the while True loop of select_version: a number typed at the
\* prompt (0 stands for every answer that is no number of the list)
SelectVersionPrompt ==
    /\ pc = "sv_prompt"
    /\ \E choice \in 0..Len(versions) :
        LET idx == choice - 1
        IN  IF 0 <= idx /\ idx < Len(versions)
            THEN /\ pb_version' = versions[idx + 1]
                 /\ pc' = "dl_entry"
            ELSE UNCHANGED <<pb_version, pc>>
    /\ UNCHANGED <<args, project_dir, pb_port, port_from_args, os_type, arch,
                   port_input, attempt, requests, sleeps, releases, versions,
                   default_used, cache, url, filename, zip_path, xfers,
                   dl_result, pb_mode, history, written, config, err,
                   exit_status>>

(***************************************************************************)
(* download_pocketbase: locator, cache lookup, transfer, extraction.       *)
(***************************************************************************)
\* how urlretrieve(url, cached_zip) can end: the exception it raised and
\* what it left under the cache root ("none": the file was never opened)
TransferOutcomes ==
    { [err |-> "URLError", content |-> "none"],
      [err |-> "ContentTooShort", content |-> "partial"],
      [err |-> "OSError_write", content |-> "none"],
      [err |-> "OSError_write", content |-> "partial"],
      [err |-> "None", content |-> "zip_pb"],
      [err |-> "None", content |-> "zip_exe"] }

\* a handler that catches the errors of the network only
TransferFailedNetOnly(o) == o.err = "URLError"

\* "except Exception" around urlretrieve: every error is a failed transfer
TransferFailed(o) == o.err # "None"

\* the return of download_pocketbase, noted in the history of calls
Return(res, n, z) ==
    /\ dl_result' = res
    /\ pc' = "dl_return"
    /\ history' = Append(history, [file |-> filename, xfers |-> n,
                                   zip_path |-> z, result |-> res])

\* download_pocketbase up to the cache test: the locator, get_cache_dir
\* (whose mkdir can fail only while the directory does not exist) and
\* cached_zip.exists()
DownloadLookup ==
    /\ pc = "dl_entry"
    /\ url' = Url(pb_version, os_type, arch)
    /\ filename' = Filename(pb_version, os_type, arch)
    /\ \E mkdir_ok \in BOOLEAN :
        /\ (~mkdir_ok => cache = EmptyCache)
        /\ IF ~mkdir_ok
           THEN /\ err' = "OSError_cache"
                /\ Exit(1)
                /\ UNCHANGED zip_path
           ELSE /\ IF CacheHit(cache, filename')
                   THEN /\ zip_path' = filename'
                        /\ pc' = "dl_extract"
                   ELSE /\ pc' = "dl_transfer"
                        /\ UNCHANGED zip_path
                /\ UNCHANGED <<err, exit_status>>
    /\ UNCHANGED <<args, project_dir, pb_version, pb_port, port_from_args,
                   os_type, arch, port_input, attempt, requests, sleeps,
                   releases, versions, default_used, cache, xfers, dl_result,
                   pb_mode, history, written, config>>

\* the miss branch: one urlretrieve into the cache under the final name
DownloadTransfer ==
    /\ pc = "dl_transfer"
    /\ xfers' = xfers + 1
    /\ \E o \in TransferOutcomes :
        /\ cache' = IF o.content = "none" THEN cache
                    ELSE Store(cache, filename, o.content)
        /\ err' = IF o.err = "None" THEN err ELSE o.err
        /\ IF TransferFailed(o)
           THEN /\ Return("False", xfers', zip_path)
                /\ UNCHANGED zip_path
           ELSE /\ zip_path' = filename
                /\ pc' = "dl_extract"
                /\ UNCHANGED <<dl_result, history>>
    /\ UNCHANGED <<args, project_dir, pb_version, pb_port, port_from_args,
                   os_type, arch, port_input, attempt, requests, sleeps,
                   releases, versions, default_used, url, filename, pb_mode,
                   written, config, exit_status>>

\* the permission bits of project_dir/pocketbase once an archive with
\* content c has been written over a file of mode m by a process whose
\* new files get mode n
Extracted(c, m, n) == IF c = "zip_pb" /\ m = NoFile THEN n ELSE m

\* ZipFile(zip_path).extractall(project_dir)
DownloadExtract ==
    /\ pc = "dl_extract"
    /\ IF cache[zip_path] = "partial"
       THEN /\ err' = "BadZipFile"
            /\ Return("False", xfers, zip_path)
            /\ UNCHANGED pb_mode
       ELSE \E fs_ok \in BOOLEAN, n \in NewModes :
            IF fs_ok
            THEN /\ pb_mode' = Extracted(cache[zip_path], pb_mode, n)
                 /\ pc' = "dl_chmod"
                 /\ UNCHANGED <<err, dl_result, history>>
            ELSE /\ pb_mode' \in {pb_mode, Extracted(cache[zip_path], pb_mode, n)}
                 /\ err' = "OSError_extract"
                 /\ Return("False", xfers, zip_path)
    /\ UNCHANGED <<args, project_dir, pb_version, pb_port, port_from_args,
                   os_type, arch, port_input, attempt, requests, sleeps,
                   releases, versions, default_used, cache, url, filename,
                   zip_path, xfers, written, config, exit_status>>

\* the chmod of the extracted binary and the return of True
DownloadChmod ==
    /\ pc = "dl_chmod"
    /\ pb_mode' = IF IsPosix(os_type) /\ pb_mode # NoFile THEN ExecMode ELSE pb_mode
    /\ Return("True", xfers, zip_path)
    /\ UNCHANGED <<args, project_dir, pb_version, pb_port, port_from_args,
                   os_type, arch, port_input, attempt, requests, sleeps,
                   releases, versions, default_used, cache, url, filename,
                   zip_path, xfers, written, config, err, exit_status>>

(***************************************************************************)
(* run_setup after download_pocketbase, and the end of main().             *)
(***************************************************************************)
\* the scaffold steps of run_setup, in the order of the calls
ScaffoldSteps ==
    << "create_folder_structure", "initialize_typescript_project",
       "create_hook_template", "create_gitignore", "create_run_script",
       "create_config_file", "create_init_types_script", "create_readme" >>

\* a test that takes every result for a success
DownloadFailedNever(r) == FALSE

\* "not self.download_pocketbase()"
DownloadFailed(r) == r = "False"

\* "if not self.download_pocketbase(): return"
AfterDownload ==
    /\ pc = "dl_return"
    /\ IF DownloadFailed(dl_result)
       THEN Exit(0)
       ELSE /\ pc' = "scaffold"
            /\ UNCHANGED exit_status
    /\ UNCHANGED <<args, project_dir, pb_version, pb_port, port_from_args,
                   os_type, arch, port_input, attempt, requests, sleeps,
                   releases, versions, default_used, cache, url, filename,
                   zip_path, xfers, dl_result, pb_mode, history, written,
                   config, err>>

\* the next scaffold step; none of them catches the error of a failed write.
\* After the last one run_setup and main() return.
ScaffoldStep ==
    /\ pc = "scaffold"
    /\ Len(written) < Len(ScaffoldSteps)
    /\ LET step == ScaffoldSteps[Len(written) + 1]
       IN  \E fs_ok \in BOOLEAN :
           IF fs_ok
           THEN /\ written' = Append(written, step)
                /\ config' = IF step = "create_config_file"
                             THEN [port |-> pb_port, version |-> pb_version]
                             ELSE config
                /\ IF Len(written') = Len(ScaffoldSteps)
                   THEN Exit(0)
                   ELSE UNCHANGED <<pc, exit_status>>
                /\ UNCHANGED err
           ELSE /\ err' = "OSError_scaffold"
                /\ Exit(1)
                /\ UNCHANGED <<written, config>>
    /\ UNCHANGED <<args, project_dir, pb_version, pb_port, port_from_args,
                   os_type, arch, port_input, attempt, requests, sleeps,
                   releases, versions, default_used, cache, url, filename,
                   zip_path, xfers, dl_result, pb_mode, history>>

(***************************************************************************)
(* One run of the tool, from the command line or through the class.        *)
(***************************************************************************)
\* release listings the remote serves in a run of the whole tool
RC == <<"v", "0", ".", "3", "1", "-", "r", "c">>

RunListings ==
    { <<>>,
      << [tag_name |-> RC, prerelease |-> TRUE] >>,
      << [tag_name |-> RC, prerelease |-> TRUE],
         [tag_name |-> V0303, prerelease |-> FALSE],
         [tag_name |-> V0302, prerelease |-> FALSE] >> }

\* what one listing request can bring back in such a run
RunResponses == Responses({"URLError"}, RunListings)

Next ==
    \/ Main
    \/ New
    \/ SelectProjectDir
    \/ SelectProjectDirPrompt
    \/ SelectPort
    \/ SelectVersion
    \/ GvAttempt(RunResponses)
    \/ GvBackoff
    \/ SelectVersionList
    \/ SelectVersionPrompt
    \/ DownloadLookup
    \/ DownloadTransfer
    \/ DownloadExtract
    \/ DownloadChmod
    \/ AfterDownload
    \/ ScaffoldStep

Spec == Init /\ [][Next]_vars

(***************************************************************************)
(* An object whose fields are set, for the specifications that start at a  *)
(* method of the class instead of main().                                  *)
(***************************************************************************)
Constructed(v, h, d) ==
    /\ args = NoArgs
    /\ project_dir = d
    /\ pb_version = v
    /\ pb_port = DefaultPort
    /\ port_from_args = FALSE
    /\ os_type = h[1]
    /\ arch = h[2]
    /\ port_input = [kind |-> "none", val |-> 0]
    /\ attempt = 0
    /\ requests = 0
    /\ sleeps = 0
    /\ releases = <<>>
    /\ versions = NoneList
    /\ default_used = FALSE
    /\ url = "None"
    /\ filename = "None"
    /\ zip_path = "None"
    /\ xfers = 0
    /\ dl_result = "None"
    /\ history = <<>>
    /\ written = <<>>
    /\ config = NoConfig
    /\ err = "None"
    /\ exit_status = NotExited

(***************************************************************************)
(* Repeated acquisition: download_pocketbase called again and again on one *)
(* object by a caller that may change the version in between.              *)
(***************************************************************************)
AcquireVersions == {V0303, V0302}

InitAcquire ==
    /\ pc = "dl_entry"
    /\ \E v \in AcquireVersions, h \in Hosts, d \in {"empty", "nonempty"} :
        /\ Constructed(v, h, d)
        /\ pb_mode \in ModesIn(d)
    /\ cache \in InitCaches

\* the caller sets the version and calls download_pocketbase once more
Again ==
    /\ pc = "dl_return"
    /\ Len(history) < MaxCalls
    /\ pb_version' \in AcquireVersions
    /\ pc' = "dl_entry"
    /\ zip_path' = "None"
    /\ xfers' = 0
    /\ dl_result' = "None"
    /\ UNCHANGED <<args, project_dir, pb_port, port_from_args, os_type, arch,
                   port_input, attempt, requests, sleeps, releases, versions,
                   default_used, cache, url, filename, pb_mode, history,
                   written, config, err, exit_status>>

NextAcquire ==
    \/ DownloadLookup
    \/ DownloadTransfer
    \/ DownloadExtract
    \/ DownloadChmod
    \/ Again

SpecAcquire == InitAcquire /\ [][NextAcquire]_vars

(***************************************************************************)
(* The Version Catalog alone: get_pocketbase_versions against listings of  *)
(* every length up to MaxReleases.                                         *)
(***************************************************************************)
DigitSeq == <<"0", "1", "2", "3", "4", "5", "6", "7", "8", "9">>

\* the tag of the i-th entry of a generated listing
Tag(i) == <<"v", "1", ".", DigitSeq[(i \div 10) + 1], DigitSeq[(i % 10) + 1]>>

\* a listing of n entries whose pre-releases are the positions in P
Listing(n, P) == [i \in 1..n |-> [tag_name |-> Tag(i), prerelease |-> i \in P]]

\* the sets of at most two positions
FewOf(n) == {{}} \cup { {i, j} : i \in 1..n, j \in 1..n }

\* listings with at most two pre-releases, or at most two stable releases
CatalogListings ==
    UNION { { Listing(n, P) : P \in FewOf(n) } \cup
            { Listing(n, (1..n) \ P) : P \in FewOf(n) } : n \in 0..MaxReleases }

InitCatalog ==
    /\ pc = "gv_attempt"
    /\ Constructed(None, <<"linux", "x86_64">>, "empty")
    /\ pb_mode = NoFile
    /\ cache = EmptyCache

CatalogResponses == Responses(NetErrors, CatalogListings)

NextCatalog ==
    \/ GvAttempt(CatalogResponses)
    \/ GvBackoff

SpecCatalog == InitCatalog /\ [][NextCatalog]_vars

(***************************************************************************)
(* select_version alone, for every short version string over an alphabet   *)
(* that holds the characters the validation tells apart.                   *)
(***************************************************************************)
Alphabet == {"v", ".", "1", "x"}

Overrides ==
    UNION { [1..k -> Alphabet] : k \in 0..MaxLen } \cup
    { None, Latest, V0303, <<"1", ".", "2", ".", "3">>,
      <<"v", "1", ".", "2", ".", "x">> }

InitVersion ==
    /\ pc = "select_version"
    /\ \E v \in Overrides : Constructed(v, <<"linux", "x86_64">>, "empty")
    /\ pb_mode = NoFile
    /\ cache = EmptyCache

NextVersion ==
    \/ SelectVersion
    \/ GvAttempt(RunResponses)
    \/ GvBackoff
    \/ SelectVersionList
    \/ SelectVersionPrompt

SpecVersion == InitVersion /\ [][NextVersion]_vars

(***************************************************************************)
(* Properties of the acquisition pipeline (SpecAcquire).                   *)
(***************************************************************************)
\* the archive f is in the cache c as a whole zip file
Complete(c, f) == f \in DOMAIN c /\ c[f] \in {"zip_pb", "zip_exe"}

\* C1: when a call of download_pocketbase misses the cache and its transfer
\* succeeds, that call makes exactly one transfer and every later call for
\* the same version and platform finds the file in the cache, uses the
\* cached path and makes no transfer; no such later call is ever found
\* in its transfer step.
C1_AcquireIdempotent ==
    /\ \A i \in DOMAIN history : \A j \in DOMAIN history :
        ( /\ i < j
          /\ history[i].file = history[j].file
          /\ history[i].xfers >= 1
          /\ history[i].zip_path # "None" )
        => /\ history[i].xfers = 1
           /\ history[j].xfers = 0
           /\ history[j].zip_path = history[j].file
    /\ pc = "dl_transfer"
        => ~\E i \in DOMAIN history :
              history[i].file = filename /\ history[i].zip_path # "None"

\* a first call that downloaded the archive and a second one served by the cache
C1_Witness ==
    /\ Len(history) >= 2
    /\ history[1].file = history[2].file
    /\ history[1].xfers = 1
    /\ history[1].zip_path # "None"
    /\ history[2].xfers = 0
    /\ history[2].zip_path = history[2].file

\* C6: a transfer that does not end with the whole archive in the cache
\* ends the call at once: one urlretrieve was made by the call, no archive
\* path was set, the project directory was not touched by an extraction,
\* and False is returned and recorded.
C6_FailedTransferFailsCall ==
    [][ (pc = "dl_transfer" /\ ~Complete(cache', filename))
        => /\ pc' = "dl_return"
           /\ dl_result' = "False"
           /\ xfers' = 1
           /\ zip_path' = "None"
           /\ pb_mode' = pb_mode
           /\ history' = Append(history, [file |-> filename, xfers |-> 1,
                                          zip_path |-> "None", result |-> "False"]) ]_vars

\* a call that missed, made its one transfer and returned False without an archive
C6_Witness ==
    /\ pc = "dl_return"
    /\ dl_result = "False"
    /\ xfers = 1
    /\ zip_path = "None"
    /\ ~Complete(cache, filename)

\* C8: after a successful extraction on a host whose os_name resolves to
\* linux or darwin, project_dir/pocketbase, if it exists, has mode 0755;
\* when os_name is windows the mode is left as the extraction left it.
C8_ExecutableOnPosixTag ==
    [][ pc = "dl_chmod"
        => /\ (OsName(os_type) \in {"linux", "darwin"} /\ pb_mode' # NoFile)
                => pb_mode' = ExecMode
           /\ OsName(os_type) = "windows" => pb_mode' = pb_mode ]_vars

\* C9: no step removes a file from the cache root or changes the content
\* of a file that is there.
C9_CacheAppendOnly ==
    [][ \A f \in DOMAIN cache : f \in DOMAIN cache' /\ cache'[f] = cache[f] ]_vars

\* three calls on a cache of two entries: one served by the cache, one that
\* failed, and the entry of the first call still as it was stored
C9_Witness ==
    /\ Len(history) >= 3
    /\ Cardinality(DOMAIN cache) >= 2
    /\ \E i \in DOMAIN history : history[i].xfers = 0
    /\ \E i \in DOMAIN history : history[i].result = "False"
    /\ \E i \in DOMAIN history : history[i].xfers = 1 /\ history[i].result = "True"

(***************************************************************************)
(* Properties of the Version Catalog (SpecCatalog).                        *)
(***************************************************************************)
\* C2: get_pocketbase_versions never issues more than 3 requests and never
\* ends in an exception; when it returns through the fallback (every
\* attempt has failed) it has issued exactly 3 requests and returns the
\* hardcoded list of 9 versions; whatever it returns is a non-empty list.
C2_ThreeAttemptsThenFallback ==
    /\ requests <= 3
    /\ pc # "exit"
    /\ pc = "gv_sleep" => requests < 3
    /\ (pc = "gv_return" /\ default_used)
        => /\ requests = 3
           /\ versions = DefaultVersions
           /\ Len(versions) = 9
    /\ pc = "gv_return" => (versions # NoneList /\ Len(versions) > 0)

\* the return of the fallback list after three failed requests
C2_Witness ==
    /\ pc = "gv_return"
    /\ default_used
    /\ requests = 3
    /\ versions = DefaultVersions

\* positions of the listing rs that are not flagged as pre-release
StablePositions(rs) == { i \in DOMAIN rs : ~rs[i].prerelease }

\* C3: a successful get_pocketbase_versions returns min(15, number of
\* stable entries) tags, the k-th of which is the tag of the k-th entry of
\* the listing that is not a pre-release; no returned tag is that of a
\* pre-release entry.
C3_StableFirstFifteen ==
    (pc = "gv_return" /\ ~default_used)
    => LET stable == StablePositions(releases)
           size == Cardinality(stable)
       IN  /\ Len(versions) <= 15
           /\ Len(versions) = (IF size < 15 THEN size ELSE 15)
           /\ \A k \in 1..Len(versions) :
                \E i \in stable :
                    /\ Cardinality({ j \in stable : j < i }) = k - 1
                    /\ versions[k] = releases[i].tag_name
           /\ \A k \in 1..Len(versions) : \A i \in DOMAIN releases :
                releases[i].prerelease => versions[k] # releases[i].tag_name

\* a listing with a pre-release and more than 15 stable entries, cut to 15
C3_Witness ==
    /\ pc = "gv_return"
    /\ ~default_used
    /\ Cardinality(StablePositions(releases)) > 15
    /\ Cardinality(StablePositions(releases)) < Len(releases)
    /\ Len(versions) = 15

(***************************************************************************)
(* Properties of select_version (SpecVersion).                             *)
(***************************************************************************)
\* the rule for supplied versions as the documentation words it
Accepted(v) ==
    /\ v # None
    /\ Len(v) >= 1
    /\ v[1] = "v"
    /\ \E i \in 2..Len(v) : v[i] # "."
    /\ \A i \in 2..Len(v) : v[i] \in DigitChars \cup {"."}

\* C4: select_version keeps a supplied version, without a request to the
\* catalog, exactly when it starts with v and the rest without its dots
\* is a non-empty string of digits; otherwise it queries the catalog, and
\* the version it then selects is an entry of the list the catalog returned.
C4_OverrideValidation ==
    [][ /\ pc = "select_version"
            => IF Accepted(pb_version)
               THEN pc' = "dl_entry" /\ pb_version' = pb_version /\ requests' = 0
               ELSE pc' = "gv_attempt"
        /\ (pc \in {"gv_return", "sv_prompt"} /\ pc' = "dl_entry")
            => \E k \in DOMAIN versions : pb_version' = versions[k] ]_vars

\* the override v.1 kept as the selected version with no request made
C4_Witness ==
    /\ pc = "dl_entry"
    /\ requests = 0
    /\ pb_version = <<"v", ".", "1">>

\* C10 (as claimed): after every listing attempt has failed, the version
\* select_version selects is the sentinel "latest".
C10_LatestWhenNoCatalog ==
    (pc = "dl_entry" /\ default_used) => pb_version = Latest

\* C10 (amended): after every listing attempt has failed, the version
\* select_version selects is an entry of the hardcoded fallback list, and
\* it is not the sentinel "latest".
C10_FallbackEntryWhenNoCatalog ==
    (pc = "dl_entry" /\ default_used)
    => /\ \E k \in DOMAIN DefaultVersions : pb_version = DefaultVersions[k]
       /\ pb_version # Latest

\* a version selected after three failed requests
C10_Witness ==
    /\ pc = "dl_entry"
    /\ default_used
    /\ requests = 3
    /\ pb_version = V0280

(***************************************************************************)
(* Properties of a whole run (Spec).                                       *)
(***************************************************************************)
\* C5: a port outside [1024, 65535] does not end the process and is
\* replaced by 8090: main() goes on to run_setup, and select_port returns
\* with port 8090 whether the port came from the arguments or the prompt.
C5_BadPortReplaced ==
    [][ /\ (pc = "main" /\ ~args.help /\ args.has_port /\ ~InRange(args.port))
            => pc' = "select_project_dir"
        /\ pc = "select_port"
            => /\ pc' = "select_version"
               /\ ((pb_port # DefaultPort \/ port_from_args) /\ ~InRange(pb_port))
                    => pb_port' = DefaultPort
               /\ (port_input'.kind = "int" /\ ~InRange(port_input'.val))
                    => pb_port' = DefaultPort ]_vars

\* the errors of the filesystem: the project directory or the cache
\* directory cannot be created, the archive cannot be written to the
\* cache, the archive cannot be extracted
FsErrors ==
    {"OSError_mkdir", "OSError_cache", "OSError_write", "BadZipFile",
     "OSError_extract"}

\* C7: a process in whose run a filesystem error was raised ends with a
\* non-zero exit status.
C7_FsFailureExitsNonZero ==
    (pc = "exit" /\ err \in FsErrors) => exit_status > 0


(***************************************************************************)
(* The Platform Identifier and the Artifact Locator, for hosts of every    *)
(* kind and for versions from each of the three sources: a validated       *)
(* override, a tag name of the remote listing, an entry of the fallback.   *)
(***************************************************************************)
\* results of platform.system() explored
SystemNames == {"Linux", "Darwin", "Windows", "FreeBSD", "Java", "SunOS", ""}

\* str.lower() on the system names
Lower(s) ==
    CASE s = "Linux" -> "linux"
      [] s = "Darwin" -> "darwin"
      [] s = "Windows" -> "windows"
      [] s = "FreeBSD" -> "freebsd"
      [] s = "Java" -> "java"
      [] s = "SunOS" -> "sunos"
      [] OTHER -> s

\* results of platform.machine() explored
MachineNames == {"x86_64", "amd64", "AMD64", "arm64", "aarch64", "i686", ""}

\* tag names the remote can serve: any non-empty short string
CatalogTags == UNION { [1..k -> Alphabet] : k \in 1..MaxLen }

\* listings of one stable release
TagListings == { << [tag_name |-> t, prerelease |-> FALSE] >> : t \in CatalogTags }

\* the overrides that pass the validation, or no override at all
GoodOverrides == { v \in Overrides : v = None \/ ValidOverride(v) }

InitLocator ==
    /\ pc = "select_version"
    /\ \E v \in GoodOverrides, o \in SystemNames, m \in MachineNames :
        Constructed(v, <<Lower(o), m>>, "empty")
    /\ pb_mode = NoFile
    /\ cache = EmptyCache

TagResponses == Responses({"URLError"}, TagListings)

NextLocator ==
    \/ SelectVersion
    \/ GvAttempt(TagResponses)
    \/ GvBackoff
    \/ SelectVersionList
    \/ SelectVersionPrompt
    \/ DownloadLookup

SpecLocator == InitLocator /\ [][NextLocator]_vars

\* the parts of a filename put together
ZipName(n, o, a) == "pocketbase_" \o n \o "_" \o o \o "_" \o a \o ".zip"

\* C11: the locator never fails on a host: for every os_type the os part
\* of the filename is os_type itself when that is linux, darwin or
\* windows and linux otherwise; for every arch the arch part is amd64 for
\* x86_64 and amd64, arm64 for arm64 and amd64 for every other string.
C11_PlatformMappingTotal ==
    [][ pc = "dl_entry"
        => LET os_name == CASE os_type = "linux" -> "linux"
                            [] os_type = "darwin" -> "darwin"
                            [] os_type = "windows" -> "windows"
                            [] OTHER -> "linux"
               arch_name == CASE arch = "x86_64" -> "amd64"
                              [] arch = "amd64" -> "amd64"
                              [] arch = "arm64" -> "arm64"
                              [] OTHER -> "amd64"
           IN  /\ filename' = ZipName(Str(VersionNum(pb_version)), os_name, arch_name)
               /\ url' # "None" ]_vars

\* the locator has run on a FreeBSD host with an aarch64 processor
C11_Witness ==
    /\ pc \in {"dl_transfer", "dl_extract"}
    /\ os_type = "freebsd"
    /\ arch = "aarch64"
    /\ filename = "pocketbase_0.30.3_linux_amd64.zip"

\* v without its first character when that is a v
StripOneV(v) == IF Len(v) >= 1 /\ v[1] = "v" THEN SubSeq(v, 2, Len(v)) ELSE v

\* C12: for every version that reaches the locator the filename is
\* pocketbase_{n}_{os_name}_{arch_name}.zip, n being the version with one
\* leading v stripped, and the URL is the release-download base, the
\* version as it is, a slash and the filename; v0.30.3 on linux/amd64
\* gives pocketbase_0.30.3_linux_amd64.zip.
C12_LocatorStripsOneV ==
    [][ pc = "dl_entry"
        => /\ filename' = ZipName(Str(StripOneV(pb_version)), OsName(os_type),
                                  ArchName(arch))
           /\ url' = "https://github.com/pocketbase/pocketbase/releases/download/"
                        \o Str(pb_version) \o "/" \o filename'
           /\ (pb_version = V0303 /\ os_type = "linux" /\ arch \in {"x86_64", "amd64"})
                => filename' = "pocketbase_0.30.3_linux_amd64.zip" ]_vars


(***************************************************************************)
(* Further properties of a whole run (Spec).                               *)
(***************************************************************************)
\* the positions of a run at which select_version has returned
AfterSelection ==
    {"dl_entry", "dl_transfer", "dl_extract", "dl_chmod", "dl_return", "scaffold"}

\* C13: no step taken after select_version has returned changes
\* self.pb_version; the URL of the download is built from that version as
\* it is, and the version written to pb_config.json is that version.
C13_VersionFrozenAfterSelection ==
    [][ /\ pc \in AfterSelection => pb_version' = pb_version
        /\ url' # "None"
            => url' = "https://github.com/pocketbase/pocketbase/releases/download/"
                        \o Str(pb_version') \o "/" \o filename'
        /\ config' # NoConfig => config'.version = pb_version' ]_vars

\* a finished run that selected v0.30.2 from the listing and recorded it
C13_Witness ==
    /\ pc = "exit"
    /\ Len(written) = Len(ScaffoldSteps)
    /\ ~default_used
    /\ pb_version = V0302
    /\ config.version = V0302
    /\ url = "https://github.com/pocketbase/pocketbase/releases/download/v0.30.2/"
                \o filename

\* the positions of a run before download_pocketbase is called
BeforeDownload ==
    {"main", "init", "select_project_dir", "spd_prompt", "select_port",
     "select_version", "gv_attempt", "gv_sleep", "gv_return", "sv_prompt"}

\* C16: the URL and filename are computed only after the project
\* directory, the port and the version are settled; the scaffold steps
\* run in the order of run_setup and only after download_pocketbase has
\* returned True; a run whose download or extraction failed has written
\* no scaffold file.
C16_StepsInOrder ==
    /\ pc \in BeforeDownload => (url = "None" /\ filename = "None")
    /\ url # "None"
        => /\ project_dir \in {"new", "empty", "nonempty"}
           /\ InRange(pb_port)
           /\ pb_version # None
    /\ pc \in {"select_version", "gv_attempt", "gv_sleep", "gv_return", "sv_prompt"}
        => (project_dir \in {"new", "empty", "nonempty"} /\ InRange(pb_port))
    /\ (pc = "scaffold" \/ written # <<>> \/ config # NoConfig)
        => dl_result = "True"
    /\ written = SubSeq(ScaffoldSteps, 1, Len(written))
    /\ dl_result = "False" => (written = <<>> /\ config = NoConfig)

\* a run that ended after a failed extraction with nothing scaffolded
C16_Witness ==
    /\ pc = "exit"
    /\ dl_result = "False"
    /\ err = "OSError_extract"
    /\ written = <<>>
    /\ config = NoConfig

(***************************************************************************)
(* Further properties of the Version Catalog (SpecCatalog).                *)
(***************************************************************************)
\* C14: when a round of the retry loop starts, as many backoffs as
\* requests have been made; during a backoff there is one request more
\* than backoffs and the failed request was not the third; a success
\* after k failures returns with k+1 requests and k backoffs, k < 3; the
\* fallback returns with 3 requests and 2 backoffs; nothing follows the
\* return.
C14_BackoffBetweenAttempts ==
    /\ pc = "gv_attempt" => (requests = sleeps /\ attempt = sleeps /\ sleeps < 3)
    /\ pc = "gv_sleep" => (requests = sleeps + 1 /\ requests < 3)
    /\ (pc = "gv_return" /\ ~default_used)
        => (requests = sleeps + 1 /\ sleeps < 3 /\ versions # NoneList)
    /\ (pc = "gv_return" /\ default_used) => (requests = 3 /\ sleeps = 2)

\* a success at the third request, after two failures and two backoffs
C14_Witness ==
    /\ pc = "gv_return"
    /\ ~default_used
    /\ requests = 3
    /\ sleeps = 2

(***************************************************************************)
(* Further properties of the acquisition pipeline (SpecAcquire).           *)
(***************************************************************************)
\* C15: the transfer writes under the final filename only, and a file
\* left truncated by a failed transfer is a cache hit for every later
\* call for the same version and platform: that call makes no transfer
\* and takes the truncated file as its archive.
C15_TruncatedFileIsAHit ==
    [][ /\ pc = "dl_transfer" => DOMAIN cache' \subseteq DOMAIN cache \cup {filename}
        /\ ( /\ pc = "dl_entry"
             /\ pc' # "exit"
             /\ filename' \in DOMAIN cache
             /\ cache[filename'] = "partial" )
            => /\ pc' = "dl_extract"
               /\ zip_path' = filename'
               /\ xfers' = 0
               /\ cache' = cache ]_vars

\* a transfer that failed and left a truncated file, then a call for the
\* same file that made no transfer
C15_Witness ==
    \E i \in DOMAIN history : \E j \in DOMAIN history :
        /\ i < j
        /\ history[i].file = history[j].file
        /\ history[i].xfers = 1
        /\ history[i].result = "False"
        /\ history[j].xfers = 0
        /\ history[j].zip_path = history[j].file
        /\ history[j].file \in DOMAIN cache
        /\ cache[history[j].file] = "partial"

====
